---- MODULE Spec2Model ----
\* A model of src/index.ts: the GraphQL schema, the resolver table, the seed
\* collections, the module's start-up order, and request execution by the
\* GraphQL engine, one resolver phase per step.
EXTENDS Naturals, Sequences, FiniteSets

VARIABLES main, listening, microtasks, inits,
          books, authors, libraries, booksNew,
          slots, mutations, call, ret

vars == <<main, listening, microtasks, inits, books, authors, libraries,
          booksNew, slots, mutations, call, ret>>

-----------------------------------------------------------------------------
\* Bounds of the model.

\* Requests that may be in flight at the same time.
MaxInflight == 2
\* addBook mutations accepted in one run.
MaxMutations == 2
\* Longest booksNew collection the filter is exercised on.
MaxLen == 3

-----------------------------------------------------------------------------
\* JavaScript values.  Every value is a one-field record whose field name is
\* its kind, so that values of different kinds are comparable (and unequal).

Undefined == [undef |-> TRUE]
Null == [null |-> TRUE]
\* A let/const binding that is still in its temporal dead zone.
Uninit == [tdz |-> TRUE]
Str(s) == [str |-> s]
Num(n) == [num |-> n]
Obj(r) == [obj |-> r]
Arr(s) == [arr |-> s]
\* An exception thrown by a resolver or by the engine while completing a value.
Thrown(m) == [thrown |-> m]
\* A null in the response that carries a field error with message m.
NullErr(m) == [nullerr |-> m]

IsStr(v) == "str" \in DOMAIN v
IsNum(v) == "num" \in DOMAIN v
IsObj(v) == "obj" \in DOMAIN v
IsArr(v) == "arr" \in DOMAIN v
IsThrown(v) == "thrown" \in DOMAIN v
IsNullErr(v) == "nullerr" \in DOMAIN v
IsNullish(v) == v = Undefined \/ v = Null

\* source[name] as the engine's default resolver reads it: the property of an
\* object, undefined when the object has no such property or is a primitive.
Prop(v, name) ==
    IF IsObj(v) /\ name \in DOMAIN v.obj THEN v.obj[name] ELSE Undefined

-----------------------------------------------------------------------------
\* Seed collections.

SeedBooks ==
    Arr(<< Obj([title |-> Str("The Awakening"),
                author |-> Obj([name |-> Str("Kate Chopin")])]),
           Obj([title |-> Str("City of Glass"),
                author |-> Obj([name |-> Str("Paul Auster")])]) >>)

SeedAuthors ==
    Arr(<< Obj([id |-> Str("1"), name |-> Str("Kate Chopin"),
                books |-> Arr(<<Obj([title |-> Str("The Awakening")])>>)]),
           Obj([id |-> Str("2"), name |-> Str("Paul Auster"),
                books |-> Arr(<<Obj([title |-> Str("City of Glass")])>>)]) >>)

SeedLibraries ==
    Arr(<< Obj([branch |-> Str("downtown")]),
           Obj([branch |-> Str("riverside")]) >>)

SeedBooksNew ==
    Arr(<< Obj([title |-> Str("The Awakening"), author |-> Str("Kate Chopin"),
                branch |-> Str("riverside")]),
           Obj([title |-> Str("City of Glass"), author |-> Str("Paul Auster"),
                branch |-> Str("downtown")]) >>)

\* The four module-level bindings as the resolvers see them.
Db == [books |-> books, authors |-> authors,
       libraries |-> libraries, booksNew |-> booksNew]

SeedDb == [books |-> SeedBooks, authors |-> SeedAuthors,
           libraries |-> SeedLibraries, booksNew |-> SeedBooksNew]

-----------------------------------------------------------------------------
\* Schema (typeDefs).  A type is a named type, a list of a type, or a
\* non-null wrapper of a type.

Named(n) == [named |-> n]
ListOf(t) == [list |-> t]
NonNull(t) == [nonnull |-> t]

IsNonNull(t) == "nonnull" \in DOMAIN t
IsList(t) == "list" \in DOMAIN t

LeafTypes == {"String", "ID", "Int"}

typeDefs ==
    [ Book     |-> [title  |-> Named("String"),
                    author |-> Named("Author")],
      Books    |-> [title  |-> Named("String")],
      Author   |-> [id     |-> NonNull(Named("ID")),
                    name   |-> Named("String"),
                    books  |-> ListOf(Named("Books"))],
      Library  |-> [branch   |-> NonNull(Named("String")),
                    booksNew |-> ListOf(NonNull(Named("BookNew")))],
      BookNew  |-> [title  |-> NonNull(Named("String")),
                    author |-> NonNull(Named("AuthorNew"))],
      AuthorNew |-> [name  |-> NonNull(Named("String"))],
      Query    |-> [books       |-> ListOf(Named("Book")),
                    authors     |-> ListOf(Named("Author")),
                    author      |-> Named("Author"),
                    numberSix   |-> NonNull(Named("Int")),
                    numberSeven |-> NonNull(Named("Int")),
                    libraries   |-> ListOf(Named("Library"))],
      Mutation |-> [addBook |-> ListOf(Named("Book"))] ]

FieldType(typeName, fieldName) == typeDefs[typeName][fieldName]

-----------------------------------------------------------------------------
\* Resolver table (resolvers).  A resolver that reads a binding still in its
\* temporal dead zone throws a ReferenceError.

ReferenceError == Thrown("ReferenceError")
\* Reading a property of undefined or null throws a TypeError.
TypeError == Thrown("TypeError")

\* authors.find((item) => item.id === id) over the array elements seq: the
\* first element whose id is the given one, else undefined.
FindById(seq, id) ==
    LET hits == {i \in 1..Len(seq) : Prop(seq[i], "id") = id}
    IN  IF hits = {} THEN Undefined
        ELSE seq[CHOOSE i \in hits : \A j \in hits : i <= j]

\* booksNew.filter((book) => book.branch === parent.branch) over the array
\* elements seq: the elements on the parent's branch, in order.
RECURSIVE FilterBranch(_, _)
FilterBranch(seq, parent) ==
    IF seq = <<>> THEN <<>>
    ELSE IF Prop(Head(seq), "branch") = Prop(parent, "branch")
         THEN <<Head(seq)>> \o FilterBranch(Tail(seq), parent)
         ELSE FilterBranch(Tail(seq), parent)

RECURSIVE Reverse(_)
Reverse(seq) ==
    IF seq = <<>> THEN <<>> ELSE Reverse(Tail(seq)) \o <<Head(seq)>>

QueryBooks(db) == IF db.books = Uninit THEN ReferenceError ELSE db.books

QueryAuthors(db) == IF db.authors = Uninit THEN ReferenceError ELSE db.authors

\* Variant: the id used as an array index.
QueryAuthorByIndex(args, db) ==
    IF db.authors = Uninit THEN ReferenceError
    ELSE IF IsNullish(args) /\ db.authors.arr # <<>> THEN TypeError
    ELSE LET hits == {i \in 1..Len(db.authors.arr) :
                         Str(CASE i = 1 -> "0" [] i = 2 -> "1" [] i = 3 -> "2"
                               [] OTHER -> "n") = Prop(args, "id")}
         IN  IF hits = {} THEN Undefined
             ELSE db.authors.arr[CHOOSE i \in hits : TRUE]

\* Variant: a lookup that finds nothing throws.
QueryAuthorOrThrow(args, db) ==
    IF db.authors = Uninit THEN ReferenceError
    ELSE IF IsNullish(args) /\ db.authors.arr # <<>> THEN TypeError
    ELSE LET found == FindById(db.authors.arr, Prop(args, "id"))
         IN  IF found = Undefined THEN Thrown("NotFound") ELSE found

QueryAuthor(args, db) ==
    IF db.authors = Uninit THEN ReferenceError
    ELSE IF IsNullish(args) /\ db.authors.arr # <<>> THEN TypeError
    ELSE FindById(db.authors.arr, Prop(args, "id"))

numberSixOffByOne == Num(7)

numberSix == Num(6)

numberSeven == Num(7)

QueryLibraries(db) ==
    IF db.libraries = Uninit THEN ReferenceError ELSE db.libraries

\* Variant: matches collected newest first.
LibraryBooksNewReversed(parent, db) ==
    IF db.booksNew = Uninit THEN ReferenceError
    ELSE IF IsNullish(parent) /\ db.booksNew.arr # <<>> THEN TypeError
    ELSE Arr(Reverse(FilterBranch(db.booksNew.arr, parent)))

LibraryBooksNew(parent, db) ==
    IF db.booksNew = Uninit THEN ReferenceError
    ELSE IF IsNullish(parent) /\ db.booksNew.arr # <<>> THEN TypeError
    ELSE Arr(FilterBranch(db.booksNew.arr, parent))

\* Variant: the raw author string passed through.
BookNewAuthorRaw(parent) == Prop(parent, "author")

BookNewAuthor(parent) ==
    IF IsNullish(parent) THEN TypeError
    ELSE Obj([name |-> Prop(parent, "author")])

\* The resolver's two parameters are named title and author; the engine calls
\* every resolver as (parent, args, contextValue, info).
MutationAddBook(title, author, db) ==
    IF db.books = Uninit THEN ReferenceError
    ELSE Arr(db.books.arr \o <<Obj([title |-> title, author |-> author])>>)

\* The engine's default resolver: the same-named property of the parent.
DefaultResolver(source, fieldName) == Prop(source, fieldName)

\* What the engine calls to resolve field fieldName of type typeName, with the
\* positional arguments (parent, args).
ResolveField(typeName, fieldName, source, args, db) ==
    CASE typeName = "Query" /\ fieldName = "books" -> QueryBooks(db)
      [] typeName = "Query" /\ fieldName = "authors" -> QueryAuthors(db)
      [] typeName = "Query" /\ fieldName = "author" -> QueryAuthor(args, db)
      [] typeName = "Query" /\ fieldName = "numberSix" -> numberSix
      [] typeName = "Query" /\ fieldName = "numberSeven" -> numberSeven
      [] typeName = "Query" /\ fieldName = "libraries" -> QueryLibraries(db)
      [] typeName = "Library" /\ fieldName = "booksNew" ->
            LibraryBooksNew(source, db)
      [] typeName = "BookNew" /\ fieldName = "author" -> BookNewAuthor(source)
      [] typeName = "Mutation" /\ fieldName = "addBook" ->
            MutationAddBook(source, args, db)
      [] OTHER -> DefaultResolver(source, fieldName)

-----------------------------------------------------------------------------
\* The execution engine, as far as the schema and resolvers exercise it.

\* Serialisation of a leaf value.
Serialize(typeName, v) ==
    CASE typeName \in {"String", "ID"} /\ IsStr(v) -> v
      [] typeName = "Int" /\ IsNum(v) -> v
      [] OTHER -> Thrown("CannotRepresent")

\* A field or list item whose completion threw: a nullable position records
\* the error and becomes null, a non-null position rethrows to its parent.
HandleFieldError(t, c) ==
    IF IsThrown(c) /\ ~IsNonNull(t) THEN NullErr(c.thrown) ELSE c

FirstThrown(results) ==
    results[CHOOSE i \in DOMAIN results :
                /\ IsThrown(results[i])
                /\ \A j \in DOMAIN results : IsThrown(results[j]) => i <= j]

RECURSIVE CompleteValue(_, _, _, _)
RECURSIVE ExecuteFields(_, _, _, _)

\* sel is a sequence of [name, args, sel] field selections.
ExecuteFields(typeName, source, sel, db) ==
    LET results ==
            [i \in 1..Len(sel) |->
                LET t == FieldType(typeName, sel[i].name)
                IN  HandleFieldError(t,
                        CompleteValue(t,
                            ResolveField(typeName, sel[i].name, source,
                                         Obj(sel[i].args), db),
                            sel[i].sel, db))]
        names == {sel[i].name : i \in 1..Len(sel)}
    IN  IF \E i \in 1..Len(sel) : IsThrown(results[i])
        THEN FirstThrown(results)
        ELSE Obj([n \in names |->
                    results[CHOOSE i \in 1..Len(sel) : sel[i].name = n]])

CompleteValue(t, v, sel, db) ==
    IF IsThrown(v) THEN v
    ELSE IF IsNonNull(t) THEN
        LET c == CompleteValue(t.nonnull, v, sel, db)
        IN  IF c = Null THEN Thrown("NonNullViolation") ELSE c
    ELSE IF IsNullish(v) THEN Null
    ELSE IF IsList(t) THEN
        IF ~IsArr(v) THEN Thrown("NotIterable")
        ELSE LET items ==
                    [i \in 1..Len(v.arr) |->
                        HandleFieldError(t.list,
                            CompleteValue(t.list, v.arr[i], sel, db))]
             IN  IF \E i \in 1..Len(v.arr) : IsThrown(items[i])
                 THEN FirstThrown(items)
                 ELSE Arr(items)
    ELSE IF t.named \in LeafTypes THEN Serialize(t.named, v)
    ELSE ExecuteFields(t.named, v, sel, db)

\* The response to a request whose root resolver returned rootVal: the data
\* object, null when a non-null root field failed.
Respond(req, rootVal, db) ==
    LET t == FieldType(req.op, req.field)
        c == HandleFieldError(t, CompleteValue(t, rootVal, req.sel, db))
    IN  IF IsThrown(c) THEN NullErr(c.thrown)
        ELSE Obj([n \in {req.field} |-> c])

\* A request executed alone against the collections db.
Execute(req, db) ==
    Respond(req, ResolveField(req.op, req.field, Undefined, Obj(req.args), db),
            db)

-----------------------------------------------------------------------------
\* Request documents the clients send.

NoArgs == <<>>
Field(name, sub) == [name |-> name, args |-> NoArgs, sel |-> sub]
Leaf(name) == Field(name, <<>>)

BooksDoc ==
    [op |-> "Query", field |-> "books", args |-> NoArgs,
     sel |-> <<Leaf("title"), Field("author", <<Leaf("name")>>)>>]

BooksWithIdDoc ==
    [op |-> "Query", field |-> "books", args |-> NoArgs,
     sel |-> <<Leaf("title"),
               Field("author", <<Leaf("id"), Leaf("name")>>)>>]

AuthorSel == <<Leaf("id"), Leaf("name"), Field("books", <<Leaf("title")>>)>>

AuthorsDoc ==
    [op |-> "Query", field |-> "authors", args |-> NoArgs, sel |-> AuthorSel]

AuthorDoc(id) ==
    [op |-> "Query", field |-> "author", args |-> [id |-> Str(id)],
     sel |-> AuthorSel]

NumberSixDoc ==
    [op |-> "Query", field |-> "numberSix", args |-> NoArgs, sel |-> <<>>]

NumberSevenDoc ==
    [op |-> "Query", field |-> "numberSeven", args |-> NoArgs, sel |-> <<>>]

LibrariesDoc ==
    [op |-> "Query", field |-> "libraries", args |-> NoArgs,
     sel |-> <<Leaf("branch"),
               Field("booksNew",
                     <<Leaf("title"), Field("author", <<Leaf("name")>>)>>)>>]

AddBookDoc(title, author) ==
    [op |-> "Mutation", field |-> "addBook",
     args |-> [title |-> title, author |-> author],
     sel |-> <<Leaf("title"), Field("author", <<Leaf("name")>>)>>]

\* The requests clients send: every root field, author(id) with a present id
\* that is not the first entry's and with an absent id, addBook with both
\* arguments given and with both null.
QueryDocs ==
    <<BooksDoc, BooksWithIdDoc, AuthorsDoc, NumberSixDoc, NumberSevenDoc,
      LibrariesDoc, AuthorDoc("2"), AuthorDoc("3")>>

MutationDocs ==
    <<AddBookDoc(Str("New Title"), Str("New Author")), AddBookDoc(Null, Null)>>

-----------------------------------------------------------------------------
\* State.

Slots == 1..MaxInflight

IdleSlot ==
    [phase |-> "idle", req |-> Undefined, rootVal |-> Undefined,
     resp |-> Undefined]

Initialized ==
    /\ books # Uninit
    /\ authors # Uninit
    /\ libraries # Uninit
    /\ booksNew # Uninit

\* The module starts evaluating: the resolver table exists, the bindings
\* declared below the top-level await are in their temporal dead zone.
Init ==
    /\ main = "evaluating"
    /\ listening = FALSE
    /\ microtasks = <<>>
    /\ inits = 0
    /\ books = Uninit
    /\ authors = Uninit
    /\ libraries = Uninit
    /\ booksNew = Uninit
    /\ slots = [i \in Slots |-> IdleSlot]
    /\ mutations = 0
    /\ call = Undefined
    /\ ret = Undefined

\* new ApolloServer(...), then startStandaloneServer(...) is called and the
\* module suspends on the await.
StartStandaloneServer ==
    /\ main = "evaluating"
    /\ main' = "awaiting"
    /\ UNCHANGED <<listening, microtasks, inits, books, authors, libraries,
                   booksNew, slots, mutations, call, ret>>

\* The HTTP server starts listening; the promise the module awaits is
\* resolved, which queues the module's continuation as a promise job.
Listen ==
    /\ main = "awaiting"
    /\ ~listening
    /\ listening' = TRUE
    /\ microtasks' = Append(microtasks, "resumeModule")
    /\ UNCHANGED <<main, inits, books, authors, libraries, booksNew, slots,
                   mutations, call, ret>>

\* The continuation after the await: the ready message, then the four
\* initialisers, run synchronously to the end of the module.
ModuleResume ==
    /\ microtasks # <<>>
    /\ Head(microtasks) = "resumeModule"
    /\ microtasks' = Tail(microtasks)
    /\ main' = "done"
    /\ inits' = inits + 1
    /\ books' = SeedBooks
    /\ authors' = SeedAuthors
    /\ libraries' = SeedLibraries
    /\ booksNew' = SeedBooksNew
    /\ UNCHANGED <<listening, slots, mutations, call, ret>>

\* Variant: a request dispatched while promise jobs are still queued.
ReceiveBeforeJobs(i, req) ==
    /\ listening
    /\ slots[i].phase = "idle"
    /\ req.op = "Mutation" => mutations < MaxMutations
    /\ slots' = [slots EXCEPT ![i] = [IdleSlot EXCEPT !.phase = "root",
                                                      !.req = req]]
    /\ mutations' = IF req.op = "Mutation" THEN mutations + 1 ELSE mutations
    /\ UNCHANGED <<main, listening, microtasks, inits, books, authors,
                   libraries, booksNew, call, ret>>

\* The event loop hands a request to the server: an I/O callback, which runs
\* only when the server listens and no promise job is queued.
Receive(i, req) ==
    /\ listening
    /\ microtasks = <<>>
    /\ slots[i].phase = "idle"
    /\ req.op = "Mutation" => mutations < MaxMutations
    /\ slots' = [slots EXCEPT ![i] = [IdleSlot EXCEPT !.phase = "root",
                                                      !.req = req]]
    /\ mutations' = IF req.op = "Mutation" THEN mutations + 1 ELSE mutations
    /\ UNCHANGED <<main, listening, microtasks, inits, books, authors,
                   libraries, booksNew, call, ret>>

RootResult(i) ==
    ResolveField(slots[i].req.op, slots[i].req.field, Undefined,
                 Obj(slots[i].req.args), Db)

\* The engine calls the root resolver of a query.
ResolveQuery(i) ==
    /\ slots[i].phase = "root"
    /\ slots[i].req.op = "Query"
    /\ slots' = [slots EXCEPT ![i].phase = "nested",
                              ![i].rootVal = RootResult(i)]
    /\ UNCHANGED <<main, listening, microtasks, inits, books, authors,
                   libraries, booksNew, mutations, call, ret>>

\* Variant: the new array is stored back into books.
ResolveAddBookStoring(i) ==
    /\ slots[i].phase = "root"
    /\ slots[i].req.op = "Mutation"
    /\ slots' = [slots EXCEPT ![i].phase = "nested",
                              ![i].rootVal = RootResult(i)]
    /\ books' = IF IsArr(RootResult(i)) THEN RootResult(i) ELSE books
    /\ UNCHANGED <<main, listening, microtasks, inits, authors,
                   libraries, booksNew, mutations, call, ret>>

\* The engine calls Mutation.addBook: the new array is returned, books is not
\* assigned.
ResolveAddBook(i) ==
    /\ slots[i].phase = "root"
    /\ slots[i].req.op = "Mutation"
    /\ slots' = [slots EXCEPT ![i].phase = "nested",
                              ![i].rootVal = RootResult(i)]
    /\ UNCHANGED <<main, listening, microtasks, inits, books, authors,
                   libraries, booksNew, mutations, call, ret>>

\* The engine completes the root value: nested resolvers and default
\* resolvers run over the selection set, and the response is built.
CompleteRequest(i) ==
    /\ slots[i].phase = "nested"
    /\ slots' = [slots EXCEPT ![i].phase = "done",
                              ![i].resp = Respond(slots[i].req,
                                                  slots[i].rootVal, Db)]
    /\ UNCHANGED <<main, listening, microtasks, inits, books, authors,
                   libraries, booksNew, mutations, call, ret>>

\* The response is sent and the request is forgotten.
Send(i) ==
    /\ slots[i].phase = "done"
    /\ slots' = [slots EXCEPT ![i] = IdleSlot]
    /\ UNCHANGED <<main, listening, microtasks, inits, books, authors,
                   libraries, booksNew, mutations, call, ret>>

Next ==
    \/ StartStandaloneServer
    \/ Listen
    \/ ModuleResume
    \/ \E i \in Slots : \E k \in DOMAIN QueryDocs : Receive(i, QueryDocs[k])
    \/ \E i \in Slots : \E k \in DOMAIN MutationDocs :
           Receive(i, MutationDocs[k])
    \/ \E i \in Slots : ResolveQuery(i)
    \/ \E i \in Slots : ResolveAddBook(i)
    \/ \E i \in Slots : CompleteRequest(i)
    \/ \E i \in Slots : Send(i)

Spec == Init /\ [][Next]_vars

-----------------------------------------------------------------------------
\* Library.booksNew called directly, on booksNew collections and parent
\* Library values drawn from bounded sets.

BranchNames == <<"downtown", "riverside", "uptown">>
TitleNames == <<"The Awakening", "City of Glass">>

\* Raw BookNew records; no book is stocked at the third branch.
BookNewRecords ==
    { Obj([title |-> Str(TitleNames[t]), author |-> Str("Kate Chopin"),
           branch |-> Str(BranchNames[b])]) : t \in 1..2, b \in 1..2 }

LibraryParents == { Obj([branch |-> Str(BranchNames[b])]) : b \in 1..3 }

SeqsUpTo(S, n) == UNION { [1..k -> S] : k \in 0..n }

InitFilter ==
    /\ main = "done"
    /\ listening = TRUE
    /\ microtasks = <<>>
    /\ inits = 1
    /\ books = SeedBooks
    /\ authors = SeedAuthors
    /\ libraries = SeedLibraries
    /\ booksNew \in { Arr(s) : s \in SeqsUpTo(BookNewRecords, MaxLen) }
    /\ slots = [i \in Slots |-> IdleSlot]
    /\ mutations = 0
    /\ call = Undefined
    /\ ret = Undefined

CallBooksNew(parent) ==
    /\ call' = parent
    /\ ret' = LibraryBooksNew(parent, Db)
    /\ UNCHANGED <<main, listening, microtasks, inits, books, authors,
                   libraries, booksNew, slots, mutations>>

NextFilter == \E parent \in LibraryParents : CallBooksNew(parent)

SpecFilter == InitFilter /\ [][NextFilter]_vars

-----------------------------------------------------------------------------
\* Properties.

Resolved(i) == slots[i].phase \in {"nested", "done"}
Done(i) == slots[i].phase = "done"

\* The messages of the field errors recorded in a response value.
RECURSIVE ErrorsIn(_)
ErrorsIn(v) ==
    IF IsNullErr(v) THEN {v.nullerr}
    ELSE IF IsArr(v) THEN UNION {ErrorsIn(v.arr[k]) : k \in 1..Len(v.arr)}
    ELSE IF IsObj(v) THEN UNION {ErrorsIn(v.obj[n]) : n \in DOMAIN v.obj}
    ELSE {}

\* Errors the engine raises itself while completing a value; every other
\* field error is an exception thrown by a resolver.
EngineErrors == {"NonNullViolation", "CannotRepresent", "NotIterable"}

Book(title, authorName) ==
    Obj([title |-> Str(title), author |-> Obj([name |-> Str(authorName)])])

\* C1: Mutation.addBook(title, author) returns the current books collection,
\* in order, followed by exactly one entry whose title is the given title and
\* whose author is the given author (as given, or as an object naming it).
C1_AddBookAppendsGivenEntry ==
    \A i \in Slots :
        (Resolved(i) /\ slots[i].req.field = "addBook") =>
            LET r == slots[i].rootVal
                n == Len(books.arr)
                t == slots[i].req.args.title
                a == slots[i].req.args.author
            IN  /\ IsArr(r)
                /\ Len(r.arr) = n + 1
                /\ SubSeq(r.arr, 1, n) = books.arr
                /\ Prop(r.arr[n + 1], "title") = t
                /\ \/ Prop(r.arr[n + 1], "author") = a
                   \/ Prop(r.arr[n + 1], "author") = Obj([name |-> a])

\* C2: whatever requests came before, addBook mutations included, a books
\* query is answered with exactly the two seeded entries in seed order, and
\* the books collection itself holds exactly those two entries.
C2_BooksQueryReturnsSeed ==
    /\ Initialized => Len(books.arr) = 2
    /\ \A i \in Slots :
        (Done(i) /\ slots[i].req = BooksDoc) =>
            slots[i].resp =
                Obj([books |-> Arr(<<Book("The Awakening", "Kate Chopin"),
                                     Book("City of Glass", "Paul Auster")>>)])

\* A books query answered after addBook mutations were accepted, with nothing
\* else in flight.
C2_Witness ==
    \E i \in Slots :
        /\ Done(i)
        /\ slots[i].req = BooksDoc
        /\ mutations >= 1
        /\ \A j \in Slots \ {i} : slots[j].phase = "idle"

\* C3: author ids are unique; Query.author(id) returns the one entry of
\* authors with that id when there is one, and otherwise undefined, which the
\* response reports as a null author without an error.
C3_AuthorLookup ==
    /\ Initialized =>
        \A k, l \in 1..Len(authors.arr) :
            Prop(authors.arr[k], "id") = Prop(authors.arr[l], "id") => k = l
    /\ \A i \in Slots :
        (Resolved(i) /\ slots[i].req.field = "author") =>
            LET id == slots[i].req.args.id
                hits == {k \in 1..Len(authors.arr) :
                            Prop(authors.arr[k], "id") = id}
            IN  IF hits = {}
                THEN /\ slots[i].rootVal = Undefined
                     /\ Done(i) => slots[i].resp = Obj([author |-> Null])
                ELSE /\ Cardinality(hits) = 1
                     /\ \A k \in hits : slots[i].rootVal = authors.arr[k]
                     /\ Done(i) => /\ ErrorsIn(slots[i].resp) = {}
                                   /\ slots[i].resp.obj.author.obj.id = id

\* One lookup of a present id and one of an absent id, both answered.
C3_Witness ==
    \E i, j \in Slots :
        /\ Done(i) /\ slots[i].req = AuthorDoc("2")
        /\ Done(j) /\ slots[j].req = AuthorDoc("3")

\* C4: Library.booksNew(parent) returns an array, never null or undefined,
\* holding exactly the entries of booksNew on the parent's branch, each at the
\* position its rank among those entries gives it (the original relative
\* order); with no entry on the branch the array is empty.
C4_BooksNewIsOrderedFilter ==
    call # Undefined =>
        LET hits == {k \in 1..Len(booksNew.arr) :
                        booksNew.arr[k].obj.branch = call.obj.branch}
            Rank(k) == Cardinality({m \in hits : m < k}) + 1
        IN  /\ IsArr(ret)
            /\ Len(ret.arr) = Cardinality(hits)
            /\ \A k \in hits : ret.arr[Rank(k)] = booksNew.arr[k]
            /\ hits = {} => ret = Arr(<<>>)

\* A call that returns two different entries out of a collection that also
\* holds an entry of another branch.
C4_Witness ==
    /\ call # Undefined
    /\ IsArr(ret)
    /\ Len(ret.arr) = 2
    /\ ret.arr[1] # ret.arr[2]
    /\ Len(booksNew.arr) = 3

\* C5: on the seed data the libraries query yields downtown then riverside,
\* downtown holding exactly City of Glass by Paul Auster and riverside exactly
\* The Awakening by Kate Chopin, each author an object with the raw record's
\* author as its name.
C5_LibrariesOnSeed ==
    \A i \in Slots :
        (Done(i) /\ slots[i].req = LibrariesDoc) =>
            slots[i].resp =
                Obj([libraries |-> Arr(<<
                    Obj([branch |-> Str("downtown"),
                         booksNew |->
                             Arr(<<Book("City of Glass", "Paul Auster")>>)]),
                    Obj([branch |-> Str("riverside"),
                         booksNew |->
                             Arr(<<Book("The Awakening", "Kate Chopin")>>)])
                    >>)])

C5_Witness ==
    \E i \in Slots : Done(i) /\ slots[i].req = LibrariesDoc

\* C6: whatever requests came before, numberSix is answered with 6 and
\* numberSeven with 7.
C6_NumberConstants ==
    \A i \in Slots :
        /\ (Resolved(i) /\ slots[i].req.field = "numberSix") =>
              /\ slots[i].rootVal = Num(6)
              /\ Done(i) => slots[i].resp = Obj([numberSix |-> Num(6)])
        /\ (Resolved(i) /\ slots[i].req.field = "numberSeven") =>
              /\ slots[i].rootVal = Num(7)
              /\ Done(i) => slots[i].resp = Obj([numberSeven |-> Num(7)])

\* Both constants answered after a mutation was accepted.
C6_Witness ==
    \E i, j \in Slots :
        /\ Done(i) /\ slots[i].req = NumberSixDoc
        /\ Done(j) /\ slots[j].req = NumberSevenDoc
        /\ mutations >= 1

\* C7: under every interleaving of requests the four collections keep their
\* seed contents, and every response equals the response the same request
\* gets when executed alone against the seed state.
C7_ResponsesAsIfAlone ==
    /\ Initialized => Db = SeedDb
    /\ \A i \in Slots :
        Done(i) => slots[i].resp = Execute(slots[i].req, SeedDb)

\* A books query answered while an addBook mutation whose resolver has
\* already run is still in flight.
C7_Witness ==
    \E i, j \in Slots :
        /\ Done(i) /\ slots[i].req.field = "books"
        /\ slots[j].phase = "nested" /\ slots[j].req.field = "addBook"

\* C8: no resolver throws: no root resolver returns by an exception, every
\* field error in a response is one the engine raised itself, and a lookup
\* that finds nothing is reported as null.
C8_NoResolverThrows ==
    \A i \in Slots :
        /\ Resolved(i) => ~IsThrown(slots[i].rootVal)
        /\ Done(i) => ErrorsIn(slots[i].resp) \subseteq EngineErrors
        /\ (Done(i) /\ slots[i].req = AuthorDoc("3")) =>
              slots[i].resp = Obj([author |-> Null])

\* A lookup of an absent id and an addBook with null arguments, both answered.
C8_Witness ==
    \E i, j \in Slots :
        /\ Done(i) /\ slots[i].req = AuthorDoc("3")
        /\ Done(j) /\ slots[j].req = AddBookDoc(Null, Null)

\* C9: every Author object reached through Book.author, from Query.books or
\* from the result of Mutation.addBook, has a non-null id under the default
\* resolver, and no response records a null in a non-null position.
C9_NonNullFieldsResolveNonNull ==
    \A i \in Slots :
        /\ (Resolved(i) /\ slots[i].req.field \in {"books", "addBook"}
                /\ IsArr(slots[i].rootVal)) =>
              \A k \in 1..Len(slots[i].rootVal.arr) :
                  LET a == DefaultResolver(slots[i].rootVal.arr[k], "author")
                  IN  ~IsNullish(a) => ~IsNullish(DefaultResolver(a, "id"))
        /\ Done(i) => "NonNullViolation" \notin ErrorsIn(slots[i].resp)

\* C10: the initialisers run at most once, and whenever a request is being
\* resolved they have run: all four collections are initialised.
C10_InitializedBeforeRequests ==
    /\ inits <= 1
    /\ Initialized <=> inits = 1
    /\ \A i \in Slots : slots[i].phase # "idle" => Initialized

\* A request whose root resolver is about to run on the listening server.
C10_Witness ==
    \E i \in Slots : slots[i].phase = "root" /\ listening /\ main = "done"

====
